---- MODULE Spec2Model ----
(***************************************************************************)
(* Model of the fail0verflow ECDSA toolkit: src/ec_utils.py (modular       *)
(* inverse, points, group law) and src/attack.py (sign, verify, nonce      *)
(* reuse detection, key recovery).                                         *)
(*                                                                         *)
(* The functions are pure.  Each action below is one call of one function  *)
(* on inputs drawn from bounded sets; the call and what it returned (a     *)
(* value or a raised exception) are the state.  mod_inverse and            *)
(* point_multiply are also run step by step (InvSpec, CurveSpec), and the  *)
(* script of attack.py phase by phase (MainSpec).                          *)
(*                                                                         *)
(* The 160-bit VSH curve is replaced by a curve of the same shape that     *)
(* TLC can enumerate: p prime, a = p - 3, b a quadratic non-residue (no    *)
(* point with x = 0), prime group order n < p with cofactor 1 (so no       *)
(* point of order two, i.e. no finite point with y = 0).                   *)
(***************************************************************************)
EXTENDS Integers, Sequences, FiniteSets, TLC

VARIABLES pc, call, ret, stack

vars == <<pc, call, ret, stack>>

(***************************************************************************)
(* Curve parameters (ec_utils.py:27-40), scaled down.                      *)
(***************************************************************************)
P == 23
A == P - 3
B == 15
N == 17
GX == 1
GY == 6

(***************************************************************************)
(* Bounds of the model.                                                    *)
(***************************************************************************)
MaxMsg == 3       \* messages are 0..MaxMsg
MaxA == 12        \* mod_inverse operands are -MaxA..MaxA
MaxM == 8         \* mod_inverse moduli are 2..MaxM
MaxFw == 5        \* firmware lists have at most MaxFw records
MaxRec == 3       \* firmwares.json holds at most MaxRec records

(***************************************************************************)
(* Python values: None, returned values and raised exceptions.  A call     *)
(* evaluates to Ok(value) or to Raise(type, message); Then(res, F) is the  *)
(* rest F of a function body after the call res: it runs on the value, and *)
(* an exception raised by the call propagates instead.                     *)
(***************************************************************************)
None == -1

Ok(v) == [tag |-> "ok", val |-> v]

Raise(type, msg) == [tag |-> type, msg |-> msg]

IsOk(res) == res.tag = "ok"

Then(res, F(_)) == IF IsOk(res) THEN F(res.val) ELSE res

NoCall == [fn |-> "none"]

(***************************************************************************)
(* ec_utils.py: modular arithmetic.                                        *)
(***************************************************************************)
bezout_step(sub, a, b) == <<sub[1], sub[3] - (b \div a) * sub[2], sub[2]>>

RECURSIVE _extended_gcd(_, _)
_extended_gcd(a, b) ==
    IF a = 0
    THEN <<b, 0, 1>>
    ELSE bezout_step(_extended_gcd(b % a, a), a, b)

\* the coefficient returned without its reduction modulo m
mod_inverse_result_unreduced(t, m) ==
    IF t[1] # 1
    THEN Raise("ValueError", "Pas d'inverse modulaire")
    ELSE Ok(t[2])

mod_inverse_result(t, m) ==
    IF t[1] # 1
    THEN Raise("ValueError", "Pas d'inverse modulaire")
    ELSE Ok(t[2] % m)

mod_inverse(a, m) ==
    mod_inverse_result(_extended_gcd(IF a < 0 THEN a % m ELSE a, m), m)

(***************************************************************************)
(* ec_utils.py: class Point.  The point at infinity has x = y = None.      *)
(***************************************************************************)
Point(x, y) == [x |-> x, y |-> y]

Infinity == Point(None, None)

is_infinity(pt) == pt.x = None /\ pt.y = None

is_on_curve(pt) ==
    IF is_infinity(pt)
    THEN TRUE
    ELSE (pt.y * pt.y) % P = (pt.x * pt.x * pt.x + A * pt.x + B) % P

G == Point(GX, GY)

(***************************************************************************)
(* ec_utils.py: group law.                                                 *)
(***************************************************************************)
point_add_numerator(P1, P2) ==
    IF P1.x = P2.x /\ P1.y = P2.y
    THEN (3 * P1.x * P1.x + A) % P
    ELSE (P2.y - P1.y) % P

\* the slope of the chord for every pair of points, P1 = P2 included
point_add_denominator_chord(P1, P2) == (P2.x - P1.x) % P

point_add_denominator(P1, P2) ==
    IF P1.x = P2.x /\ P1.y = P2.y
    THEN (2 * P1.y) % P
    ELSE (P2.x - P1.x) % P

\* y3 with the sign of y1 turned
point_add_y3_plus(P1, lam, x3) == Point(x3, (lam * (P1.x - x3) + P1.y) % P)

point_add_y3(P1, lam, x3) == Point(x3, (lam * (P1.x - x3) - P1.y) % P)

point_add_x3(P1, P2, lam) ==
    point_add_y3(P1, lam, (lam * lam - P1.x - P2.x) % P)

\* point_add without the case P1 = -P2 of lines 249-250
point_add_no_inverse_pair(P1, P2) ==
    IF is_infinity(P1) THEN Ok(Point(P2.x, P2.y))
    ELSE IF is_infinity(P2) THEN Ok(Point(P1.x, P1.y))
    ELSE Then(mod_inverse(point_add_denominator(P1, P2), P),
              LAMBDA inv :
                  Ok(point_add_x3(P1, P2,
                                  (point_add_numerator(P1, P2) * inv) % P)))

point_add(P1, P2) ==
    IF is_infinity(P1) THEN Ok(Point(P2.x, P2.y))
    ELSE IF is_infinity(P2) THEN Ok(Point(P1.x, P1.y))
    ELSE IF P1.x = P2.x /\ P1.y # P2.y THEN Ok(Infinity)
    ELSE Then(mod_inverse(point_add_denominator(P1, P2), P),
              LAMBDA inv :
                  Ok(point_add_x3(P1, P2,
                                  (point_add_numerator(P1, P2) * inv) % P)))

\* one pass of the while loop of lines 325-329, then the rest of the loop
RECURSIVE point_multiply_loop(_, _, _)
point_multiply_loop(k, result, addend) ==
    IF ~(k > 0)
    THEN Ok(result)
    ELSE Then(IF k % 2 = 1 THEN point_add(result, addend) ELSE Ok(result),
              LAMBDA result1 :
                  Then(point_add(addend, addend),
                       LAMBDA addend1 :
                           point_multiply_loop(k \div 2, result1, addend1)))

\* In the k < 0 branch (line 319) the parameter named P shadows the modulus
\* P, so "(-P.y) % P" is int % Point (or -None for the point at infinity):
\* a TypeError in either case.
point_multiply_negative(k, Pt) ==
    Raise("TypeError", "unsupported operand type(s)")

point_multiply(k, Pt) ==
    IF k = 0 THEN Ok(Infinity)
    ELSE IF k < 0 THEN point_multiply_negative(k, Pt)
    ELSE point_multiply_loop(k, Infinity, Point(Pt.x, Pt.y))

point_negate(pt) ==
    IF is_infinity(pt) THEN Infinity ELSE Point(pt.x, (0 - pt.y) % P)

(***************************************************************************)
(* Strings that cross the JSON boundary: a string is a sequence of         *)
(* one-character strings.  hex() writes "0x" and lower-case digits without *)
(* leading zeros; int(s, 16) reads an optional "0x"/"0X" prefix and digits *)
(* of either case, with leading zeros.                                     *)
(***************************************************************************)
LowerDigits ==
    <<"0", "1", "2", "3", "4", "5", "6", "7",
      "8", "9", "a", "b", "c", "d", "e", "f">>

UpperDigits ==
    <<"0", "1", "2", "3", "4", "5", "6", "7",
      "8", "9", "A", "B", "C", "D", "E", "F">>

RECURSIVE hex_digits(_)
hex_digits(v) ==
    IF v < 16
    THEN <<LowerDigits[v + 1]>>
    ELSE Append(hex_digits(v \div 16), LowerDigits[(v % 16) + 1])

hex(v) ==
    IF v < 0
    THEN <<"-", "0", "x">> \o hex_digits(0 - v)
    ELSE <<"0", "x">> \o hex_digits(v)

IsHexDigit(c) ==
    \E i \in 1 .. 16 : LowerDigits[i] = c \/ UpperDigits[i] = c

DigitValue(c) ==
    (CHOOSE i \in 1 .. 16 : LowerDigits[i] = c \/ UpperDigits[i] = c) - 1

RECURSIVE digits_value(_)
digits_value(s) ==
    IF Len(s) = 0
    THEN 0
    ELSE 16 * digits_value(SubSeq(s, 1, Len(s) - 1)) + DigitValue(s[Len(s)])

strip_hex_prefix(s) ==
    IF Len(s) >= 2 /\ s[1] = "0" /\ s[2] \in {"x", "X"}
    THEN SubSeq(s, 3, Len(s))
    ELSE s

int16_digits(body) ==
    IF Len(body) = 0 \/ \E i \in 1 .. Len(body) : ~IsHexDigit(body[i])
    THEN Raise("ValueError", "invalid literal for int() with base 16")
    ELSE Ok(digits_value(body))

int16(s) == int16_digits(strip_hex_prefix(s))

\* the same number written the way another JSON producer might write it
to_upper(s) == [i \in 1 .. Len(s) |-> UpperDigits[DigitValue(s[i]) + 1]]

hex_upper(v) == <<"0">> \o to_upper(hex_digits(v))

(***************************************************************************)
(* attack.py: ECDSA.  A message is one of 0..MaxMsg; SHA1Int is the        *)
(* digest of line 84 read as an integer: a fixed map into a digest space   *)
(* that is wider than the group order (here 5 bits against n = 17, in the  *)
(* code 160 bits against n < 2^160), so that digests above n and digests   *)
(* congruent modulo n occur.                                               *)
(***************************************************************************)
Messages == 0 .. MaxMsg

SHA1Int(message) == (message * 17 + 3) % 32

\* the signature returned without its nonce
sign_message_s_pair(r, s, k) ==
    IF s = 0
    THEN Raise("ValueError", "Nonce invalide (s = 0)")
    ELSE Ok(<<r, s>>)

sign_message_s(r, s, k) ==
    IF s = 0
    THEN Raise("ValueError", "Nonce invalide (s = 0)")
    ELSE Ok(<<r, s, k>>)

sign_message_r(e, private_key, k, r) ==
    IF r = 0
    THEN Raise("ValueError", "Nonce invalide (r = 0)")
    ELSE Then(mod_inverse(k, N),
              LAMBDA k_inv :
                  sign_message_s(r, (k_inv * (e + private_key * r)) % N, k))

\* "R.x % N" with R the point at infinity is None % int: a TypeError
sign_message(message, private_key, k) ==
    Then(point_multiply(k, G),
         LAMBDA R :
             IF R.x = None
             THEN Raise("TypeError", "unsupported operand type(s) for %")
             ELSE sign_message_r(SHA1Int(message), private_key, k, R.x % N))

\* the comparison without the reduction of R'.x modulo n
verify_signature_check_unreduced(R_prime, r) ==
    IF is_infinity(R_prime) THEN Ok(FALSE) ELSE Ok(R_prime.x = r)

verify_signature_check(R_prime, r) ==
    IF is_infinity(R_prime) THEN Ok(FALSE) ELSE Ok((R_prime.x % N) = (r % N))

verify_signature_points(u1, u2, r, public_key) ==
    Then(point_multiply(u1, G),
         LAMBDA m1 :
             Then(point_multiply(u2, public_key),
                  LAMBDA m2 :
                      Then(point_add(m1, m2),
                           LAMBDA R_prime :
                               verify_signature_check(R_prime, r))))

verify_signature_rs(e, r, s, public_key) ==
    IF ~(1 <= r /\ r < N /\ 1 <= s /\ s < N)
    THEN Ok(FALSE)
    ELSE Then(mod_inverse(s, N),
              LAMBDA s_inv :
                  verify_signature_points((e * s_inv) % N, (r * s_inv) % N,
                                          r, public_key))

\* "r, s = signature" raises unless the signature has two components
verify_signature(message, signature, public_key) ==
    IF Len(signature) # 2
    THEN Raise("ValueError", "wrong number of values to unpack")
    ELSE verify_signature_rs(SHA1Int(message), signature[1], signature[2],
                             public_key)

(***************************************************************************)
(* attack.py: detection of reused nonces.  A firmware record is referred   *)
(* to by its position in the input list (the list holds references to the  *)
(* records, and two records may have equal contents).  by_r is the dict of *)
(* lines 150-154 in insertion order: a sequence of entries                 *)
(* [r |-> key, fw_list |-> references].                                    *)
(***************************************************************************)
by_r_setdefault_append(by_r, r, fw) ==
    IF \E g \in 1 .. Len(by_r) : by_r[g].r = r
    THEN [g \in 1 .. Len(by_r) |->
             IF by_r[g].r = r
             THEN [r |-> r, fw_list |-> Append(by_r[g].fw_list, fw)]
             ELSE by_r[g]]
    ELSE Append(by_r, [r |-> r, fw_list |-> <<fw>>])

\* the loop of lines 152-154 over the first n records
RECURSIVE build_by_r(_, _)
build_by_r(firmwares, n) ==
    IF n = 0
    THEN Ok(<<>>)
    ELSE Then(build_by_r(firmwares, n - 1),
              LAMBDA by_r :
                  Then(int16(firmwares[n].signature.r),
                       LAMBDA r : Ok(by_r_setdefault_append(by_r, r, n))))

RECURSIVE pairs_from(_, _, _)
pairs_from(fw_list, i, j) ==
    IF i > Len(fw_list) THEN <<>>
    ELSE IF j > Len(fw_list) THEN pairs_from(fw_list, i + 1, i + 2)
    ELSE <<(<<fw_list[i], fw_list[j]>>)>> \o pairs_from(fw_list, i, j + 1)

\* pairs only for the groups of three records or more
group_pairs_over_two(fw_list) ==
    IF Len(fw_list) > 2 THEN pairs_from(fw_list, 1, 2) ELSE <<>>

group_pairs(fw_list) ==
    IF Len(fw_list) >= 2 THEN pairs_from(fw_list, 1, 2) ELSE <<>>

RECURSIVE all_pairs(_, _)
all_pairs(by_r, g) ==
    IF g > Len(by_r)
    THEN <<>>
    ELSE group_pairs(by_r[g].fw_list) \o all_pairs(by_r, g + 1)

detect_nonce_reuse(firmwares) ==
    Then(build_by_r(firmwares, Len(firmwares)),
         LAMBDA by_r : Ok(all_pairs(by_r, 1)))

(***************************************************************************)
(* attack.py: the attack.                                                  *)
(***************************************************************************)
\* the denominator with its operands in the other order
recover_nonce_swapped(e1, s1, e2, s2) ==
    Then(mod_inverse((s2 - s1) % N, N),
         LAMBDA inv : Ok((((e1 - e2) % N) * inv) % N))

recover_nonce(e1, s1, e2, s2) ==
    Then(mod_inverse((s1 - s2) % N, N),
         LAMBDA inv : Ok((((e1 - e2) % N) * inv) % N))

recover_private_key(e, r, s, k) ==
    Then(mod_inverse(r, N), LAMBDA inv : Ok((inv * (k * s - e)) % N))

full_attack(fw1, fw2) ==
    Then(int16(fw1.hash), LAMBDA e1 :
    Then(int16(fw1.signature.r), LAMBDA r :
    Then(int16(fw1.signature.s), LAMBDA s1 :
    Then(int16(fw2.hash), LAMBDA e2 :
    Then(int16(fw2.signature.s), LAMBDA s2 :
    Then(recover_nonce(e1, s1, e2, s2), LAMBDA k :
         recover_private_key(e1, r, s1, k)))))))

\* k is the nonce sign_message draws when it is given none (lines 86-87)
create_signed_homebrew(private_key, data, k) ==
    Then(sign_message(data, private_key, k),
         LAMBDA sig :
             Ok([data |-> data,
                 signature |-> [r |-> hex(sig[1]), s |-> hex(sig[2])]]))

(***************************************************************************)
(* Input sets.                                                             *)
(***************************************************************************)
Coords == 0 .. (P - 1)

CurvePoints ==
    {Infinity} \cup {pt \in [x : Coords, y : Coords] : is_on_curve(pt)}

\* finite points that are not on the curve, two of them with y = 0
OffCurvePoints == {Point(0, 0), Point(1, 1), Point(17, 0), Point(5, 7)}

Points == CurvePoints \cup OffCurvePoints

Scalars == (0 - N) .. (2 * N)

PrivateKeys == 1 .. (N - 1)

Nonces == 1 .. (N - 1)

Digests == {SHA1Int(m) : m \in Messages}

\* signature components offered to verify_signature, in and out of [1, n-1]
Components == (0 - 1) .. N

\* a firmware record of the input file, as hex() writes its numbers
\* ("lower") or as upper-case digits with a leading zero and no prefix
HexStyles == {"lower", "upper"}

WriteHex(v, style) == IF style = "lower" THEN hex(v) ELSE hex_upper(v)

FirmwareRecord(version, e, r, s, style) ==
    [version |-> version,
     hash |-> WriteHex(e, style),
     signature |-> [r |-> WriteHex(r, style), s |-> WriteHex(s, style)]]

\* the record a signer publishes for message m, or none when signing fails
PublishedRecords(version, m, sig, style) ==
    IF IsOk(sig)
    THEN {FirmwareRecord(version, SHA1Int(m), sig.val[1], sig.val[2], style)}
    ELSE {}

SignedFirmware(version, m, d, k, style) ==
    PublishedRecords(version, m, sign_message(m, d, k), style)

\* r fields of the records offered to detect_nonce_reuse: four numbers,
\* one of them in two spellings ("0xa" and "0A")
RStrings == {hex(10), hex_upper(10), hex(1), hex(2), hex(3)}

FirmwareLists ==
    UNION {[1 .. n -> {[version |-> 0, signature |-> [r |-> rs]] :
                           rs \in RStrings}] : n \in 0 .. MaxFw}

(***************************************************************************)
(* Actions: one call of one function.                                      *)
(***************************************************************************)
Init ==
    /\ pc = "idle"
    /\ call = NoCall
    /\ ret = Ok(None)
    /\ stack = <<>>

Idle == pc = "idle"

PointAdd ==
    /\ Idle
    /\ \E P1 \in Points, P2 \in Points :
           /\ call' = [fn |-> "point_add", P1 |-> P1, P2 |-> P2]
           /\ ret' = point_add(P1, P2)
           /\ pc' = "done"
           /\ UNCHANGED stack

PointMultiply ==
    /\ Idle
    /\ \E k \in Scalars, Pt \in Points :
           /\ call' = [fn |-> "point_multiply", k |-> k, P |-> Pt]
           /\ ret' = point_multiply(k, Pt)
           /\ pc' = "done"
           /\ UNCHANGED stack

PointNegate ==
    /\ Idle
    /\ \E pt \in Points :
           /\ call' = [fn |-> "point_negate", pt |-> pt]
           /\ ret' = Ok(point_negate(pt))
           /\ pc' = "done"
           /\ UNCHANGED stack

\* sign_message called with a nonce
SignMessage ==
    /\ Idle
    /\ \E m \in Messages, d \in PrivateKeys, k \in Scalars :
           /\ call' = [fn |-> "sign_message", message |-> m, private_key |-> d, k_given |-> TRUE, k |-> k]
           /\ ret' = sign_message(m, d, k)
           /\ pc' = "done"
           /\ UNCHANGED stack

\* sign_message called without one: k is drawn from [1, n-1]
SignMessageRandom ==
    /\ Idle
    /\ \E m \in Messages, d \in PrivateKeys, k \in Nonces :
           /\ call' = [fn |-> "sign_message", message |-> m, private_key |-> d, k_given |-> FALSE]
           /\ ret' = sign_message(m, d, k)
           /\ pc' = "done"
           /\ UNCHANGED stack

VerifySignature ==
    /\ Idle
    /\ \E m \in Messages, r \in Components, s \in Components, Q \in Points :
           /\ call' = [fn |-> "verify_signature", message |-> m, signature |-> <<r, s>>, public_key |-> Q]
           /\ ret' = verify_signature(m, <<r, s>>, Q)
           /\ pc' = "done"
           /\ UNCHANGED stack

DetectNonceReuse ==
    /\ Idle
    /\ \E fws \in FirmwareLists :
           /\ call' = [fn |-> "detect_nonce_reuse", firmwares |-> fws]
           /\ ret' = detect_nonce_reuse(fws)
           /\ pc' = "done"
           /\ UNCHANGED stack

RecoverNonce ==
    /\ Idle
    /\ \E e1 \in Digests, e2 \in Digests, s1 \in Nonces, s2 \in Nonces :
           /\ call' = [fn |-> "recover_nonce", e1 |-> e1, s1 |-> s1, e2 |-> e2, s2 |-> s2]
           /\ ret' = recover_nonce(e1, s1, e2, s2)
           /\ pc' = "done"
           /\ UNCHANGED stack

RecoverPrivateKey ==
    /\ Idle
    /\ \E e \in Digests, r \in Nonces, s \in Nonces, k \in 0 .. (N - 1) :
           /\ call' = [fn |-> "recover_private_key", e |-> e, r |-> r, s |-> s, k |-> k]
           /\ ret' = recover_private_key(e, r, s, k)
           /\ pc' = "done"
           /\ UNCHANGED stack

\* full_attack on two records published by a signer that used the same
\* nonce for both
FullAttack ==
    /\ Idle
    /\ \E m1 \in Messages, m2 \in Messages, d \in PrivateKeys, k \in Nonces,
          style \in HexStyles :
           \E fw1 \in SignedFirmware(1, m1, d, k, style),
              fw2 \in SignedFirmware(2, m2, d, k, style) :
           /\ call' = [fn |-> "full_attack", fw1 |-> fw1, fw2 |-> fw2]
           /\ ret' = full_attack(fw1, fw2)
           /\ pc' = "done"
           /\ UNCHANGED stack

CreateSignedHomebrew ==
    /\ Idle
    /\ \E m \in Messages, d \in PrivateKeys, k \in Nonces :
           /\ call' = [fn |-> "create_signed_homebrew", private_key |-> d, data |-> m]
           /\ ret' = create_signed_homebrew(d, m, k)
           /\ pc' = "done"
           /\ UNCHANGED stack

Next ==
    \/ PointAdd
    \/ PointMultiply
    \/ PointNegate
    \/ SignMessage
    \/ SignMessageRandom
    \/ VerifySignature
    \/ DetectNonceReuse
    \/ RecoverNonce
    \/ RecoverPrivateKey
    \/ FullAttack
    \/ CreateSignedHomebrew

Spec == Init /\ [][Next]_vars

(***************************************************************************)
(* mod_inverse step by step: one action per call of and per return from    *)
(* _extended_gcd.  stack holds the frames (a, b) of the calls that wait    *)
(* for the call they made and, on top of them, the triple the last call    *)
(* returned, until its caller takes it.                                    *)
(***************************************************************************)
Frame(a, b) == [a |-> a, b |-> b]

\* the triple (gcd, x, y) a call of _extended_gcd returned
Returned(t) == [gcd |-> t[1], x |-> t[2], y |-> t[3]]

Triple(r) == <<r.gcd, r.x, r.y>>

\* lines 72-75: reduce a negative a, then call _extended_gcd(a, m)
ModInverseCall ==
    /\ pc = "idle"
    /\ \E a \in (0 - MaxA) .. MaxA, m \in 2 .. MaxM :
           /\ call' = [fn |-> "mod_inverse", a |-> a, m |-> m]
           /\ stack' = <<Frame(IF a < 0 THEN a % m ELSE a, m)>>
    /\ pc' = "egcd"
    /\ UNCHANGED ret

\* lines 96-97: the call on top of the stack has a = 0 and returns
ExtendedGcdBase ==
    /\ pc = "egcd"
    /\ stack[Len(stack)].a = 0
    /\ pc' = "return"
    /\ stack' = Append(SubSeq(stack, 1, Len(stack) - 1),
                       Returned(<<stack[Len(stack)].b, 0, 1>>))
    /\ UNCHANGED <<call, ret>>

\* line 99: the call on top of the stack calls _extended_gcd(b % a, a)
ExtendedGcdRecurse ==
    /\ pc = "egcd"
    /\ stack[Len(stack)].a # 0
    /\ stack' = Append(stack, Frame(stack[Len(stack)].b % stack[Len(stack)].a,
                                    stack[Len(stack)].a))
    /\ UNCHANGED <<pc, call, ret>>

\* lines 99-103: the waiting call under the returned triple takes it and
\* returns its own
ExtendedGcdReturn ==
    /\ pc = "return"
    /\ Len(stack) > 1
    /\ stack' = Append(SubSeq(stack, 1, Len(stack) - 2),
                       Returned(bezout_step(Triple(stack[Len(stack)]),
                                            stack[Len(stack) - 1].a,
                                            stack[Len(stack) - 1].b)))
    /\ UNCHANGED <<pc, call, ret>>

\* lines 75-80: mod_inverse takes the triple and returns or raises
ModInverseReturn ==
    /\ pc = "return"
    /\ Len(stack) = 1
    /\ pc' = "done"
    /\ ret' = mod_inverse_result(Triple(stack[1]), call.m)
    /\ stack' = <<>>
    /\ UNCHANGED call

InvNext ==
    \/ ModInverseCall
    \/ ExtendedGcdBase
    \/ ExtendedGcdRecurse
    \/ ExtendedGcdReturn
    \/ ModInverseReturn

\* the interpreter runs a call to its end: it takes a step while one is
\* possible
InvSpec == Init /\ [][InvNext]_vars /\ WF_vars(InvNext)

(***************************************************************************)
(* attack.py, "__main__": the driver, one action per phase.  call holds    *)
(* the content of firmwares.json, stack the frame of the variables the     *)
(* script has assigned so far (homebrew_signed_json is the file save_json  *)
(* writes), ret the exception that ended the script if one did.            *)
(* The script has no try: an exception a phase raises ends it there.       *)
(***************************************************************************)
verify_homebrew(public_key, homebrew) ==
    Then(int16(homebrew.signature.r), LAMBDA r :
    Then(int16(homebrew.signature.s), LAMBDA s :
         verify_signature(homebrew.data, <<r, s>>, public_key)))

\* lines 251-253
main_public_key(data) ==
    Then(int16(data.public_key.x), LAMBDA pub_x :
    Then(int16(data.public_key.y), LAMBDA pub_y : Ok(Point(pub_x, pub_y))))

\* a script that takes pairs[0] without looking at pairs first
main_first_pair_unchecked(pairs) ==
    IF Len(pairs) = 0
    THEN Raise("IndexError", "list index out of range")
    ELSE Ok(pairs[1])

\* lines 261-265
main_first_pair(pairs) ==
    IF Len(pairs) = 0
    THEN Raise("RuntimeError", "Aucune reutilisation de nonce detectee dans firmwares.json")
    ELSE Ok(pairs[1])

\* line 287 (a message of Messages)
HomebrewMessage == 0

\* the signer of the records of firmwares.json and the nonces it used
SonyKey == 5

SonyNonces == {4, 7}

\* messages with digests 3, 20 and 5: the first two are congruent modulo n
SonyMessages == {0, 1, 2}

SonyRecords ==
    UNION {SignedFirmware(m, m, SonyKey, k, "lower") :
               m \in SonyMessages, k \in SonyNonces}

\* the public key of the file: the signer's, or a point that is not on
\* the curve
FilePublicKeys == {point_multiply(SonyKey, G).val, Point(0, 0)}

\* firmwares.json
DataFiles ==
    {[public_key |-> [x |-> hex(Q.x), y |-> hex(Q.y)], firmwares |-> fws] :
         Q \in FilePublicKeys,
         fws \in UNION {[1 .. n -> SonyRecords] : n \in 0 .. MaxRec}}

\* the phase returned res: the script goes on with frame, or ends with the
\* exception
MainGoesOn(res, frame, nextpc) ==
    IF IsOk(res)
    THEN /\ pc' = nextpc
         /\ stack' = <<frame>>
         /\ UNCHANGED ret
    ELSE /\ pc' = "done"
         /\ ret' = res
         /\ UNCHANGED stack

\* lines 249-253
MainLoadData ==
    /\ pc = "idle"
    /\ \E data \in DataFiles :
           /\ call' = [fn |-> "__main__", data |-> data]
           /\ MainGoesOn(main_public_key(data),
                         [public_key |-> main_public_key(data).val],
                         "detect_nonce_reuse")

\* line 259
MainDetectNonceReuse ==
    /\ pc = "detect_nonce_reuse"
    /\ MainGoesOn(detect_nonce_reuse(call.data.firmwares),
                  stack[1] @@
                      [pairs |-> detect_nonce_reuse(call.data.firmwares).val],
                  "if_not_pairs")
    /\ UNCHANGED call

\* lines 261-265
MainIfNotPairs ==
    /\ pc = "if_not_pairs"
    /\ MainGoesOn(main_first_pair(stack[1].pairs),
                  stack[1] @@
                      [fw1 |-> main_first_pair(stack[1].pairs).val[1],
                       fw2 |-> main_first_pair(stack[1].pairs).val[2]],
                  "full_attack")
    /\ UNCHANGED call

\* line 273
MainFullAttack ==
    /\ pc = "full_attack"
    /\ MainGoesOn(full_attack(call.data.firmwares[stack[1].fw1],
                              call.data.firmwares[stack[1].fw2]),
                  stack[1] @@
                      [private_key |->
                           full_attack(call.data.firmwares[stack[1].fw1],
                                       call.data.firmwares[stack[1].fw2]).val],
                  "Q_check")
    /\ UNCHANGED call

\* lines 277-281: the outcome of the comparison is printed and the script
\* goes on either way
MainQCheck ==
    /\ pc = "Q_check"
    /\ MainGoesOn(point_multiply(stack[1].private_key, G),
                  stack[1] @@
                      [Q_check |-> point_multiply(stack[1].private_key, G).val],
                  "create_signed_homebrew")
    /\ UNCHANGED call

\* lines 287-288: k is the nonce sign_message draws
MainCreateSignedHomebrew ==
    /\ pc = "create_signed_homebrew"
    /\ \E k \in Nonces :
           MainGoesOn(create_signed_homebrew(stack[1].private_key,
                                             HomebrewMessage, k),
                      stack[1] @@
                          [homebrew |->
                               create_signed_homebrew(stack[1].private_key,
                                                      HomebrewMessage, k).val],
                      "verify_homebrew")
    /\ UNCHANGED call

\* lines 290-291: the verdict is printed
MainVerifyHomebrew ==
    /\ pc = "verify_homebrew"
    /\ MainGoesOn(verify_homebrew(stack[1].public_key, stack[1].homebrew),
                  stack[1],
                  "save_json")
    /\ UNCHANGED call

\* lines 296-299: the file is written and the script ends
MainSaveJson ==
    /\ pc = "save_json"
    /\ stack' = <<stack[1] @@ [homebrew_signed_json |-> stack[1].homebrew]>>
    /\ pc' = "done"
    /\ UNCHANGED <<call, ret>>

MainNext ==
    \/ MainLoadData
    \/ MainDetectNonceReuse
    \/ MainIfNotPairs
    \/ MainFullAttack
    \/ MainQCheck
    \/ MainCreateSignedHomebrew
    \/ MainVerifyHomebrew
    \/ MainSaveJson

\* the interpreter runs the script on: it does not halt in front of the
\* test of line 261
MainSpec == Init /\ [][MainNext]_vars /\ WF_vars(MainIfNotPairs)

(***************************************************************************)
(* ec_utils.py: point_multiply step by step, one action per pass of its    *)
(* while loop.  stack holds the frame of the call: what is left of k, and  *)
(* result and addend.  The calls of point_add, point_negate and            *)
(* generate_keypair are one step each.                                     *)
(***************************************************************************)
\* lines 326-331: one pass of the loop
point_multiply_pass(k, result, addend) ==
    Then(IF k % 2 = 1 THEN point_add(result, addend) ELSE Ok(result),
         LAMBDA result1 :
             Then(point_add(addend, addend),
                  LAMBDA addend1 :
                      Ok([k |-> k \div 2, result |-> result1,
                          addend |-> addend1])))

\* attack.py lines 62-64, d being the number drawn at line 62
generate_keypair(d) ==
    Then(point_multiply(d, G), LAMBDA Q : Ok(<<d, Q>>))

\* lines 313-314: k = 0
PointMultiplyZero ==
    /\ pc = "idle"
    /\ \E Pt \in Points :
           /\ call' = [fn |-> "point_multiply", k |-> 0, P |-> Pt]
           /\ ret' = Ok(Infinity)
           /\ pc' = "done"
           /\ UNCHANGED stack

\* lines 316-319: k < 0
PointMultiplyNegative ==
    /\ pc = "idle"
    /\ \E k \in Scalars, Pt \in Points :
           /\ k < 0
           /\ call' = [fn |-> "point_multiply", k |-> k, P |-> Pt]
           /\ ret' = point_multiply_negative(k, Pt)
           /\ pc' = "done"
           /\ UNCHANGED stack

\* lines 321-322: k > 0, the loop is entered
PointMultiplyEnter ==
    /\ pc = "idle"
    /\ \E k \in Scalars, Pt \in Points :
           /\ k > 0
           /\ call' = [fn |-> "point_multiply", k |-> k, P |-> Pt]
           /\ stack' = <<[k |-> k, result |-> Infinity,
                          addend |-> Point(Pt.x, Pt.y)]>>
           /\ pc' = "while"
           /\ UNCHANGED ret

\* lines 325-329: a pass of the loop that ends
PointMultiplyPass ==
    /\ pc = "while"
    /\ stack[1].k > 0
    /\ IsOk(point_multiply_pass(stack[1].k, stack[1].result, stack[1].addend))
    /\ stack' = <<point_multiply_pass(stack[1].k, stack[1].result,
                                      stack[1].addend).val>>
    /\ UNCHANGED <<pc, call, ret>>

\* lines 325-329: a pass of the loop in which point_add raises
PointMultiplyRaise ==
    /\ pc = "while"
    /\ stack[1].k > 0
    /\ ~IsOk(point_multiply_pass(stack[1].k, stack[1].result, stack[1].addend))
    /\ ret' = point_multiply_pass(stack[1].k, stack[1].result, stack[1].addend)
    /\ pc' = "done"
    /\ UNCHANGED <<call, stack>>

\* line 331
PointMultiplyReturn ==
    /\ pc = "while"
    /\ ~(stack[1].k > 0)
    /\ ret' = Ok(stack[1].result)
    /\ pc' = "done"
    /\ UNCHANGED <<call, stack>>

GenerateKeypair ==
    /\ pc = "idle"
    /\ \E d \in PrivateKeys :
           /\ call' = [fn |-> "generate_keypair", d |-> d]
           /\ ret' = generate_keypair(d)
           /\ pc' = "done"
           /\ UNCHANGED stack

CurveNext ==
    \/ PointAdd
    \/ PointNegate
    \/ PointMultiplyZero
    \/ PointMultiplyNegative
    \/ PointMultiplyEnter
    \/ PointMultiplyPass
    \/ PointMultiplyRaise
    \/ PointMultiplyReturn
    \/ GenerateKeypair

CurveSpec == Init /\ [][CurveNext]_vars

(***************************************************************************)
(* The claims.  Called(fn) holds in the state reached by a call of fn.     *)
(***************************************************************************)
Called(fn) == pc = "done" /\ call.fn = fn

\* d.G, the public key of the private key d
PublicKey(d) == point_multiply(d, G).val

\* sign_message(m, d, k) returned the signature (r, s)
Signs(m, d, k, r, s) == sign_message(m, d, k) = Ok(<<r, s, k>>)

(***************************************************************************)
(* C1: a signature (r, s) that sign_message returned for message m, key d  *)
(* in [1, n-1] and nonce k in [1, n-1] is accepted by verify_signature     *)
(* under the public key d.G.                                               *)
(***************************************************************************)
\* (m, (r, s), d.G) for every signature (r, s) that sign_message returns on
\* a message m, a key d and a nonce k of [1, n-1]
SignedInputs ==
    {<<m, <<sign_message(m, d, k).val[1], sign_message(m, d, k).val[2]>>,
       PublicKey(d)>> :
         <<m, d, k>> \in {t \in Messages \X PrivateKeys \X Nonces :
                              IsOk(sign_message(t[1], t[2], t[3]))}}

\* the same for the nonces k whose point k.G has x >= n, so that r # R.x
SignedInputsReduced ==
    {<<m, <<sign_message(m, d, k).val[1], sign_message(m, d, k).val[2]>>,
       PublicKey(d)>> :
         <<m, d, k>> \in {t \in Messages \X PrivateKeys \X Nonces :
                              /\ IsOk(sign_message(t[1], t[2], t[3]))
                              /\ point_multiply(t[3], G).val.x >= N}}

C1_RoundTrip ==
    (/\ Called("verify_signature")
     /\ <<call.message, call.signature, call.public_key>> \in SignedInputs)
        => ret = Ok(TRUE)

C1_Witness ==
    /\ Called("verify_signature")
    /\ <<call.message, call.signature, call.public_key>>
           \in SignedInputsReduced
    /\ ret = Ok(TRUE)

(***************************************************************************)
(* Nonce reuse: the cases in which a signer with key d signs the messages  *)
(* m1 and m2 (digests e1 and e2) with the same nonce k, and both           *)
(* signatures, (r, s1) and (r, s2), are returned.                          *)
(***************************************************************************)
ReuseCase(m1, m2, d, k) ==
    [d |-> d, k |-> k, m1 |-> m1, m2 |-> m2,
     e1 |-> SHA1Int(m1), e2 |-> SHA1Int(m2),
     r |-> sign_message(m1, d, k).val[1],
     s1 |-> sign_message(m1, d, k).val[2],
     s2 |-> sign_message(m2, d, k).val[2]]

ReuseCases ==
    {ReuseCase(t[1], t[2], t[3], t[4]) :
         t \in {u \in Messages \X Messages \X PrivateKeys \X Nonces :
                    /\ IsOk(sign_message(u[1], u[3], u[4]))
                    /\ IsOk(sign_message(u[2], u[3], u[4]))}}

\* the cases whose digests differ modulo n, and the others
DistinctCases == {c \in ReuseCases : c.e1 % N # c.e2 % N}

CongruentCases == ReuseCases \ DistinctCases

NonceInputs(cases) == {<<c.e1, c.s1, c.e2, c.s2, c.k>> : c \in cases}

\* recover_private_key is given the nonce that recover_nonce returned
KeyInputs(cases) ==
    {<<c.e1, c.r, c.s1, recover_nonce(c.e1, c.s1, c.e2, c.s2).val, c.d>> :
         c \in {c \in cases : IsOk(recover_nonce(c.e1, c.s1, c.e2, c.s2))}}

AttackInputs(cases) ==
    {<<FirmwareRecord(1, t[1].e1, t[1].r, t[1].s1, t[2]),
       FirmwareRecord(2, t[1].e2, t[1].r, t[1].s2, t[2]), t[1].d>> :
         t \in cases \X HexStyles}

AllNonceInputs == NonceInputs(ReuseCases)
AllKeyInputs == KeyInputs(ReuseCases)
AllAttackInputs == AttackInputs(ReuseCases)
DistinctNonceInputs == NonceInputs(DistinctCases)
DistinctKeyInputs == KeyInputs(DistinctCases)
DistinctAttackInputs == AttackInputs(DistinctCases)
CongruentNonceInputs == NonceInputs(CongruentCases)
CongruentAttackInputs == AttackInputs(CongruentCases)

\* the three parts of the claim, over the given cases
NonceRecovered(inputs) ==
    Called("recover_nonce") =>
        \A k \in Nonces :
            <<call.e1, call.s1, call.e2, call.s2, k>> \in inputs
                => ret = Ok(k)

KeyRecovered(inputs) ==
    Called("recover_private_key") =>
        \A d \in PrivateKeys :
            <<call.e, call.r, call.s, call.k, d>> \in inputs
                => /\ ret = Ok(d)
                   /\ point_multiply(ret.val, G) = Ok(PublicKey(d))

AttackRecovers(inputs) ==
    Called("full_attack") =>
        \A d \in PrivateKeys :
            <<call.fw1, call.fw2, d>> \in inputs => ret = Ok(d)

(***************************************************************************)
(* C2 as stated: for every key d, nonce k and digests e1, e2, from the     *)
(* signatures (r, s1) on e1 and (r, s2) on e2 made with d and k,           *)
(* recover_nonce returns k, recover_private_key on that nonce returns d    *)
(* (whose point d.G is the public key), and full_attack on the two         *)
(* records returns d.                                                      *)
(***************************************************************************)
C2_AnyDigests ==
    /\ NonceRecovered(AllNonceInputs)
    /\ KeyRecovered(AllKeyInputs)
    /\ AttackRecovers(AllAttackInputs)

(***************************************************************************)
(* C2, amended: the same for digests e1, e2 that are not congruent modulo  *)
(* n.  For congruent digests (the same message signed twice, for one)      *)
(* s1 = s2, and recover_nonce and full_attack raise the ValueError of      *)
(* mod_inverse.                                                            *)
(***************************************************************************)
RaisesNoInverse ==
    ret = Raise("ValueError", "Pas d'inverse modulaire")

C2_DistinctDigests ==
    /\ NonceRecovered(DistinctNonceInputs)
    /\ KeyRecovered(DistinctKeyInputs)
    /\ AttackRecovers(DistinctAttackInputs)
    /\ (/\ Called("recover_nonce")
        /\ \E k \in Nonces :
               <<call.e1, call.s1, call.e2, call.s2, k>>
                   \in CongruentNonceInputs)
           => RaisesNoInverse
    /\ (/\ Called("full_attack")
        /\ \E d \in PrivateKeys :
               <<call.fw1, call.fw2, d>> \in CongruentAttackInputs)
           => RaisesNoInverse

\* full_attack returned the key from records written in upper case whose
\* digests are both above n
C2_Witness ==
    /\ Called("full_attack")
    /\ \E d \in PrivateKeys :
           /\ <<call.fw1, call.fw2, d>> \in DistinctAttackInputs
           /\ ret = Ok(d)
    /\ call.fw1.hash = hex_upper(20)
    /\ call.fw2.hash = hex_upper(22)

(***************************************************************************)
(* C3: verify_signature never raises: for every message, every pair of     *)
(* integers (r, s) and every point Q (the point at infinity and points off *)
(* the curve included) it returns a boolean, and it returns False when r   *)
(* or s is outside [1, n-1].                                               *)
(***************************************************************************)
InRange(v) == 1 <= v /\ v <= N - 1

C3_VerifyNeverRaises ==
    Called("verify_signature") =>
        /\ IsOk(ret)
        /\ ret.val \in BOOLEAN
        /\ (~InRange(call.signature[1]) \/ ~InRange(call.signature[2]))
               => ret.val = FALSE

(***************************************************************************)
(* C4: for every key, message and integer nonce k (k = 0, k a multiple of  *)
(* n and k < 0 included) sign_message either returns a signature with      *)
(* 1 <= r < n and 1 <= s < n or raises the invalid-nonce ValueError (the   *)
(* one for r = 0 or the one for s = 0), and nothing else.                  *)
(***************************************************************************)
InvalidNonceErrors ==
    {Raise("ValueError", "Nonce invalide (r = 0)"),
     Raise("ValueError", "Nonce invalide (s = 0)")}

C4_SignOutcomes ==
    Called("sign_message") =>
        IF IsOk(ret)
        THEN InRange(ret.val[1]) /\ InRange(ret.val[2])
        ELSE ret \in InvalidNonceErrors

(***************************************************************************)
(* C5 as stated: sign_message returns only the pair (r, s); the nonce is   *)
(* not part of what it returns (no caller can ask for it: the function has *)
(* no such parameter), in particular not when the nonce was drawn inside.  *)
(***************************************************************************)
C5_ReturnsPair ==
    (Called("sign_message") /\ IsOk(ret)) => Len(ret.val) = 2

(***************************************************************************)
(* C5, amended: sign_message always returns the triple (r, s, k), the      *)
(* nonce included, whether the caller passed k or sign_message drew it     *)
(* from [1, n-1]; k is the nonce of r (r = (k.G).x mod n).  The nonce is   *)
(* dropped by create_signed_homebrew: the record it returns holds data and *)
(* signature, and signature holds hex(r) and hex(s), of a signature that   *)
(* sign_message returns for that data and key, and nothing else.           *)
(***************************************************************************)
HomebrewSignatures(m, d) ==
    {<<sign_message(m, d, k).val[1], sign_message(m, d, k).val[2]>> :
         k \in {k \in Nonces : IsOk(sign_message(m, d, k))}}

C5_ReturnsTriple ==
    /\ (Called("sign_message") /\ IsOk(ret)) =>
           /\ Len(ret.val) = 3
           /\ IF call.k_given
              THEN ret.val[3] = call.k
              ELSE ret.val[3] \in Nonces
           /\ point_multiply(ret.val[3], G).val.x % N = ret.val[1]
    /\ (Called("create_signed_homebrew") /\ IsOk(ret)) =>
           /\ DOMAIN ret.val = {"data", "signature"}
           /\ DOMAIN ret.val.signature = {"r", "s"}
           /\ ret.val.data = call.data
           /\ \E sig \in HomebrewSignatures(call.data, call.private_key) :
                  /\ ret.val.signature.r = hex(sig[1])
                  /\ ret.val.signature.s = hex(sig[2])

\* a call without a nonce returned the nonce it drew
C5_Witness ==
    /\ Called("sign_message")
    /\ ~call.k_given
    /\ IsOk(ret)
    /\ Len(ret.val) = 3
    /\ ret.val[3] \in Nonces

(***************************************************************************)
(* C6: for every k < 0 and every point Pt on the curve, point_multiply(k,  *)
(* Pt) returns a point, the one that point_multiply(|k|, point_negate(Pt)) *)
(* returns.                                                                *)
(***************************************************************************)
C6_NegativeScalar ==
    (Called("point_multiply") /\ call.k < 0 /\ is_on_curve(call.P)) =>
        /\ IsOk(ret)
        /\ ret = point_multiply(0 - call.k, point_negate(call.P))

(***************************************************************************)
(* C7: scalar multiplication is additive in the scalar.  For all k1, k2 in *)
(* [0, n-1], point_add(k1.G, k2.G) returns what point_multiply(k1 + k2, G) *)
(* and point_multiply((k1 + k2) mod n, G) return; this covers k1 = k2      *)
(* (doubling), k1 + k2 = n (inverse pair, the result is the point at       *)
(* infinity) and k1 = 0 or k2 = 0.  On the side of point_multiply, a       *)
(* scalar k in [n, 2n-2] gives what k mod n gives.                         *)
(***************************************************************************)
GroupScalars == 0 .. (N - 1)

C7_Additive ==
    /\ Called("point_add") =>
           \A k1 \in GroupScalars :
               point_multiply(k1, G) = Ok(call.P1) =>
                   \A k2 \in GroupScalars :
                       point_multiply(k2, G) = Ok(call.P2) =>
                           /\ IsOk(ret)
                           /\ ret = point_multiply(k1 + k2, G)
                           /\ ret = point_multiply((k1 + k2) % N, G)
    /\ (Called("point_multiply") /\ call.P = G /\ call.k >= 0) =>
           /\ IsOk(ret)
           /\ ret = point_multiply(call.k % N, G)

\* k1 + k2 = n with k1, k2 # 0: the inverse-pair branch of point_add, and
\* n.G is the point at infinity
C7_Witness ==
    /\ Called("point_add")
    /\ \E k1 \in 1 .. (N - 1) :
           /\ point_multiply(k1, G) = Ok(call.P1)
           /\ point_multiply(N - k1, G) = Ok(call.P2)
    /\ ret = Ok(Infinity)
    /\ point_multiply(N, G) = ret

(***************************************************************************)
(* C8: for every point Pt on the curve (finite or the point at infinity),  *)
(* point_add(Pt, infinity) and point_add(infinity, Pt) return Pt, and      *)
(* point_add(Pt, point_negate(Pt)) returns the point at infinity; none of  *)
(* them raises.  (The curve has odd order: no finite point of it has       *)
(* y = 0.)                                                                 *)
(***************************************************************************)
C8_IdentityInverse ==
    (Called("point_add") /\ call.P1 \in CurvePoints /\ call.P2 \in CurvePoints)
        => /\ is_infinity(call.P2) => ret = Ok(call.P1)
           /\ is_infinity(call.P1) => ret = Ok(call.P2)
           /\ call.P2 = point_negate(call.P1) => ret = Ok(Infinity)

\* a finite point added to its negation
C8_Witness ==
    /\ Called("point_add")
    /\ call.P1 \in CurvePoints
    /\ ~is_infinity(call.P1)
    /\ call.P2 = point_negate(call.P1)
    /\ call.P2 # call.P1
    /\ ret = Ok(Infinity)

(***************************************************************************)
(* C9, under InvSpec: for every integer a (negative, zero, in [0, m) or    *)
(* >= m) and every modulus m >= 2, mod_inverse(a, m) returns x with        *)
(* 0 <= x <= m - 1 and (a * x) mod m = 1 when gcd(a, m) = 1, and raises    *)
(* its ValueError when gcd(a, m) # 1 (a = 0 mod m included); and every     *)
(* call ends: the recursion of _extended_gcd terminates.                   *)
(***************************************************************************)
Divides(g, v) == v % g = 0

Gcd(a, m) ==
    CHOOSE g \in 1 .. m :
        /\ Divides(g, a) /\ Divides(g, m)
        /\ \A h \in 1 .. m : (Divides(h, a) /\ Divides(h, m)) => h <= g

C9_Result ==
    Called("mod_inverse") =>
        /\ IF Gcd(call.a, call.m) = 1
           THEN /\ IsOk(ret)
                /\ 0 <= ret.val /\ ret.val <= call.m - 1
                /\ (call.a * ret.val) % call.m = 1
           ELSE ret = Raise("ValueError", "Pas d'inverse modulaire")
        /\ ret = mod_inverse(call.a, call.m)

C9_ModInverse == [](C9_Result) /\ <>(pc = "done")

\* the inverse of a negative a and the inverse of an a above the modulus
C9_Witness ==
    /\ Called("mod_inverse")
    /\ IsOk(ret)
    /\ call.a < 0
    /\ (call.a * ret.val) % call.m = 1
    /\ mod_inverse(call.a + 2 * call.m, call.m) = ret

(***************************************************************************)
(* C10: detect_nonce_reuse returns exactly the pairs of records that share *)
(* an r value.  A record is named by its position in the list; r values    *)
(* are compared as the integers int(., 16) reads.  The result holds the    *)
(* pair (i, j) for each i < j with equal r and nothing else, each once, so *)
(* a group of g records gives g*(g-1)/2 pairs; groups come in the order of *)
(* the first occurrence of their r and pairs of a group in input order.    *)
(* (The call cannot change the list it is given: the model's functions     *)
(* have no effect but their result.)                                       *)
(***************************************************************************)
RValues(fws) == [i \in 1 .. Len(fws) |-> int16(fws[i].signature.r).val]

\* rv[i] is the r value of record i
SharingPairs(rv) ==
    {q \in (1 .. Len(rv)) \X (1 .. Len(rv)) : q[1] < q[2] /\ rv[q[1]] = rv[q[2]]}

FirstOfGroup(rv, i) ==
    CHOOSE j \in 1 .. i : rv[j] = rv[i] /\ \A h \in 1 .. (j - 1) : rv[h] # rv[i]

\* q comes before q2: its group starts earlier, or it is the same group
\* and q is before q2 in input order
PairBefore(rv, q, q2) ==
    \/ FirstOfGroup(rv, q[1]) < FirstOfGroup(rv, q2[1])
    \/ /\ rv[q[1]] = rv[q2[1]]
       /\ \/ q[1] < q2[1]
          \/ q[1] = q2[1] /\ q[2] < q2[2]

GroupSize(rv, i) == Cardinality({j \in 1 .. Len(rv) : rv[j] = rv[i]})

PairsOfGroup(rv, pairs, i) ==
    Cardinality({x \in 1 .. Len(pairs) : rv[pairs[x][1]] = rv[i]})

\* the order of consecutive pairs is the order of all: PairBefore is
\* transitive
DetectedPairs(rv, pairs) ==
    /\ {pairs[x] : x \in 1 .. Len(pairs)} = SharingPairs(rv)
    /\ \A x \in 1 .. (Len(pairs) - 1) : PairBefore(rv, pairs[x], pairs[x + 1])
    /\ \A i \in 1 .. Len(rv) :
           2 * PairsOfGroup(rv, pairs, i)
               = GroupSize(rv, i) * (GroupSize(rv, i) - 1)

C10_DetectPairs ==
    Called("detect_nonce_reuse") =>
        /\ IsOk(ret)
        /\ DetectedPairs(RValues(call.firmwares), ret.val)

\* five records of which exactly two share r, written differently; the one
\* pair is theirs
C10_Witness ==
    /\ Called("detect_nonce_reuse")
    /\ Len(call.firmwares) = 5
    /\ Cardinality(SharingPairs(RValues(call.firmwares))) = 1
    /\ IsOk(ret)
    /\ Len(ret.val) = 1
    /\ ret.val[1] \in SharingPairs(RValues(call.firmwares))
    /\ call.firmwares[ret.val[1][1]] # call.firmwares[ret.val[1][2]]

(***************************************************************************)
(* C11: no silent continuation without a reused nonce.  The script is run  *)
(* on a firmwares.json whose list holds no two records with the same r.    *)
(***************************************************************************)
InMain == call.fn = "__main__" /\ Len(stack) = 1

NoSharedR == SharingPairs(RValues(call.data.firmwares)) = {}

\* the positions of the script after the test of pairs
AfterIfNotPairs ==
    {"full_attack", "Q_check", "create_signed_homebrew", "verify_homebrew",
     "save_json"}

\* none of full_attack, create_signed_homebrew, save_json is reached and
\* the file is not written
NeverAttacks ==
    /\ pc \notin AfterIfNotPairs
    /\ "private_key" \notin DOMAIN stack[1]
    /\ "homebrew" \notin DOMAIN stack[1]
    /\ "homebrew_signed_json" \notin DOMAIN stack[1]

\* C11 as stated: when no two records share r, detect_nonce_reuse does not
\* complete normally (the script never holds a list it returned) and none
\* of full_attack, create_signed_homebrew, save_json is executed.
C11_DetectionRaises ==
    InMain /\ NoSharedR =>
        /\ pc # "if_not_pairs"
        /\ NeverAttacks

\* C11 as the code has it: when no two records share r, detect_nonce_reuse
\* returns the empty list to the script (it raises nothing); the script
\* then raises RuntimeError at its test of pairs and ends there, and none
\* of full_attack, create_signed_homebrew, save_json is ever executed.
C11_DriverStops ==
    /\ [](InMain /\ NoSharedR => NeverAttacks)
    /\ [](InMain /\ NoSharedR /\ pc = "if_not_pairs" =>
              stack[1].pairs = <<>> /\ ret = Ok(None))
    /\ [](InMain /\ NoSharedR /\ pc = "done" => ret.tag = "RuntimeError")
    /\ ((InMain /\ NoSharedR /\ pc = "if_not_pairs")
            ~> (pc = "done" /\ ret.tag = "RuntimeError"))

\* the script ended by RuntimeError on a file of two records with
\* different r
C11_Witness ==
    /\ InMain
    /\ pc = "done"
    /\ ret.tag = "RuntimeError"
    /\ Len(call.data.firmwares) = 2
    /\ NoSharedR
    /\ stack[1].pairs = <<>>
    /\ NeverAttacks

(***************************************************************************)
(* C12: closure on the curve.  For points of the curve (finite or the      *)
(* identity) and k >= 0, what point_add, point_negate and point_multiply   *)
(* return, and result and addend after every pass of point_multiply's      *)
(* loop, is the identity or a finite point with 0 <= x, y < p and          *)
(* y^2 = x^3 + a*x + b (mod p); so is the public key generate_keypair      *)
(* returns, which is d.G.                                                  *)
(***************************************************************************)
OnCurve(pt) ==
    \/ pt = Infinity
    \/ /\ pt.x \in 0 .. (P - 1)
       /\ pt.y \in 0 .. (P - 1)
       /\ (pt.y * pt.y - (pt.x * pt.x * pt.x + A * pt.x + B)) % P = 0

ReturnsOnCurve == IsOk(ret) /\ OnCurve(ret.val)

C12_Closure ==
    /\ Called("point_add") /\ OnCurve(call.P1) /\ OnCurve(call.P2) =>
           ReturnsOnCurve
    /\ Called("point_negate") /\ OnCurve(call.pt) => ReturnsOnCurve
    /\ call.fn = "point_multiply" /\ call.k >= 0 /\ OnCurve(call.P) =>
           /\ pc = "while" =>
                  OnCurve(stack[1].result) /\ OnCurve(stack[1].addend)
           /\ pc = "done" => ReturnsOnCurve
    /\ Called("generate_keypair") =>
           /\ IsOk(ret)
           /\ ret.val[1] = call.d
           /\ ret.val[2] # Infinity
           /\ OnCurve(ret.val[2])
           /\ Ok(ret.val[2]) = point_multiply(call.d, G)

\* in the middle of the loop of point_multiply(k, P), P on the curve: some
\* bits of k are consumed and some are left, result is a finite point and
\* addend is a multiple of P other than P
C12_Witness ==
    /\ call.fn = "point_multiply"
    /\ pc = "while"
    /\ OnCurve(call.P)
    /\ stack[1].k > 0
    /\ stack[1].k < call.k
    /\ stack[1].result # Infinity
    /\ stack[1].addend \notin {Infinity, call.P}

====
